---- MODULE Spec2Model ----
(***************************************************************************)
(* Watermark-driven incremental synchronisation of events and of          *)
(* aggregated reservation counts (app/tasks/events.py,                     *)
(* app/tasks/reservations.py, app/targets/apis.py, app/models.py).         *)
(*                                                                         *)
(* Calendar values are records: a date is [year, month, day], a datetime  *)
(* is [year, month, day, hour, minute, second, microsecond].  Every       *)
(* invocation of a task is a process that goes through the steps of the    *)
(* task's code: resolve the unit, (list the upstream events), upsert the   *)
(* records one by one, write the watermark row.                            *)
(***************************************************************************)
EXTENDS Integers, Sequences, FiniteSets, TLC

VARIABLES source, provider, eventLog, reservationLog, procs, last, returned

vars == <<source, provider, eventLog, reservationLog, procs, last, returned>>

(***************************************************************************)
(* Bounds of the model.                                                    *)
(***************************************************************************)
\* rows of snapshot_data.csv
MaxEvents == 3
\* distinct calendar dates the rows of snapshot_data.csv are drawn from
MaxDate == 2
\* events held by the data provider service
MaxProviderEvents == 2
\* rows of the ReservationLog table after which no reservation task is started
MaxResRows == 2
\* rows of the EventLog table drawn for a direct call of the resolver
MaxLogRows == 2

\* the most rows of ReservationLog at the start of a run of the reservation
\* tasks from a table with rows
MaxSeedRows == 1

\* the most calls of _get_period_from in a run of the calls of one period type
MaxCalls == 2

\* the most rows of a table, those that the invocations in flight can add
\* included, in a run with overlapping invocations and late writes
MaxLateRows == 3

\* the worker processes that can pick up a task
Procs == {1, 2}

\* the worker of a single-worker queue, which runs the invocations one at a
\* time
SingleWorker == {1}

(***************************************************************************)
(* datetime, date, time, timedelta, relativedelta                          *)
(***************************************************************************)
IsLeap(y) == (y % 4 = 0 /\ y % 100 # 0) \/ y % 400 = 0

DaysInMonth(y, m) ==
    IF m = 2 THEN (IF IsLeap(y) THEN 29 ELSE 28)
    ELSE IF m \in {4, 6, 9, 11} THEN 30 ELSE 31

Date(y, m, d) == [year |-> y, month |-> m, day |-> d]

DateTime(y, m, d, H, M, S, f) ==
    [year |-> y, month |-> m, day |-> d,
     hour |-> H, minute |-> M, second |-> S, microsecond |-> f]

\* datetime.min.time() and datetime.max.time()
MinTime == [hour |-> 0, minute |-> 0, second |-> 0, microsecond |-> 0]
MaxTime == [hour |-> 23, minute |-> 59, second |-> 59, microsecond |-> 999999]

\* datetime.date() / Series.dt.date: the calendar date of a datetime
DateOf(dt) == Date(dt.year, dt.month, dt.day)

\* datetime.combine(date, time): `date` may be a date or a datetime, of which
\* only the calendar date is kept
Combine(d, t) ==
    DateTime(d.year, d.month, d.day, t.hour, t.minute, t.second, t.microsecond)

\* lexicographic order of two tuples of integers of the same length
RECURSIVE TupleLess(_, _)
TupleLess(a, b) ==
    IF a = <<>> THEN FALSE
    ELSE IF Head(a) # Head(b) THEN Head(a) < Head(b)
    ELSE TupleLess(Tail(a), Tail(b))

DateKey(d) == <<d.year, d.month, d.day>>

DateTimeKey(dt) ==
    <<dt.year, dt.month, dt.day, dt.hour, dt.minute, dt.second, dt.microsecond>>

DateLess(a, b) == TupleLess(DateKey(a), DateKey(b))

DateTimeLess(a, b) == TupleLess(DateTimeKey(a), DateTimeKey(b))

DateTimeLeq(a, b) == a = b \/ DateTimeLess(a, b)

\* date + timedelta(days=1)
NextDay(d) ==
    IF d.day < DaysInMonth(d.year, d.month) THEN Date(d.year, d.month, d.day + 1)
    ELSE IF d.month < 12 THEN Date(d.year, d.month + 1, 1)
    ELSE Date(d.year + 1, 1, 1)

\* datetime + timedelta(days=1): the time of day is kept
PlusOneDay(dt) ==
    Combine(NextDay(DateOf(dt)),
            [hour |-> dt.hour, minute |-> dt.minute,
             second |-> dt.second, microsecond |-> dt.microsecond])

\* datetime + relativedelta(day=31): the day is set to 31, clipped to the
\* length of the month
LastDayOfMonth(dt) ==
    [dt EXCEPT !.day = IF 31 <= DaysInMonth(dt.year, dt.month)
                       THEN 31 ELSE DaysInMonth(dt.year, dt.month)]

\* strftime('%Y-%m-%dT%H:%M:%S.%fZ'): the seven zero-padded fields and the
\* literal suffix
FormatTimestamp(dt) ==
    [Y |-> dt.year, m |-> dt.month, d |-> dt.day, H |-> dt.hour,
     M |-> dt.minute, S |-> dt.second, f |-> dt.microsecond, suffix |-> "Z"]

\* strftime('%Y-%m-%d')
FormatDate(dt) == [Y |-> dt.year, m |-> dt.month, d |-> dt.day]

(***************************************************************************)
(* Tagged values: a resolver returns a date, None, or raises.              *)
(***************************************************************************)
NoneValue == [kind |-> "none"]

Value(v) == [kind |-> "value", value |-> v]

Raise(e) == [kind |-> "raise", error |-> e]

(***************************************************************************)
(* snapshot_data.csv: the rows in file order, cells as written in the file *)
(***************************************************************************)
\* the calendar dates the rows are drawn from
EventDates == {Date(2024, 6, 10 + i) : i \in 1..MaxDate}

\* the i-th row of the file, with an event of date d
CsvRow(i, d) ==
    [id |-> i,
     hotel_id |-> 1 + (i % 2),
     room_reservation_id |-> <<"room", i>>,
     event_timestamp |-> [Y |-> d.year, m |-> d.month, d |-> d.day,
                          H |-> 14, M |-> 0, S |-> 0, suffix |-> "Z"],
     night_of_stay |-> [Y |-> NextDay(d).year, m |-> NextDay(d).month,
                        d |-> NextDay(d).day],
     status |-> 1]

Snapshots ==
    UNION {{[i \in 1..n |-> CsvRow(i, ds[i])] : ds \in [1..n -> EventDates]}
           : n \in 0..MaxEvents}

\* pd.to_datetime(..., format='ISO8601') of one cell
ParseISO8601(c) ==
    IF "H" \in DOMAIN c
    THEN DateTime(c.Y, c.m, c.d, c.H, c.M, c.S, 0)
    ELSE DateTime(c.Y, c.m, c.d, 0, 0, 0, 0)

\* DataFrame.sort_values('event_timestamp', ascending=True): insertion of a
\* row after the rows that are not later than it
RECURSIVE InsertByTimestamp(_, _)
InsertByTimestamp(sorted, row) ==
    IF sorted = <<>> THEN <<row>>
    ELSE IF DateTimeLess(row.event_timestamp, Head(sorted).event_timestamp)
         THEN <<row>> \o sorted
         ELSE <<Head(sorted)>> \o InsertByTimestamp(Tail(sorted), row)

\* SortValues that leaves the rows in file order
SortValuesSkipped(rows) == rows

RECURSIVE SortValues(_)
SortValues(rows) ==
    IF rows = <<>> THEN <<>>
    ELSE InsertByTimestamp(SortValues(SubSeq(rows, 1, Len(rows) - 1)),
                           rows[Len(rows)])

\* _load_events: parse the two datetime columns, sort by event_timestamp,
\* add the event_date column
LoadEvents(csv) ==
    LET parsed == [i \in 1..Len(csv) |->
                     [csv[i] EXCEPT
                        !.night_of_stay = ParseISO8601(csv[i].night_of_stay),
                        !.event_timestamp = ParseISO8601(csv[i].event_timestamp)]]
        sorted == SortValues(parsed)
    IN [i \in 1..Len(sorted) |->
          [id |-> sorted[i].id,
           hotel_id |-> sorted[i].hotel_id,
           room_reservation_id |-> sorted[i].room_reservation_id,
           event_timestamp |-> sorted[i].event_timestamp,
           night_of_stay |-> sorted[i].night_of_stay,
           status |-> sorted[i].status,
           event_date |-> DateOf(sorted[i].event_timestamp)]]

\* Series.unique(): the distinct values in order of first appearance
RECURSIVE Unique(_)
Unique(values) ==
    IF values = <<>> THEN <<>>
    ELSE LET before == Unique(SubSeq(values, 1, Len(values) - 1))
             v == values[Len(values)]
         IN IF \E i \in 1..Len(before) : before[i] = v
            THEN before ELSE Append(before, v)

EventDatesOf(df) == Unique([i \in 1..Len(df) |-> df[i].event_date])

(***************************************************************************)
(* EventLog (app/models.py) and the event unit resolver                    *)
(***************************************************************************)
EventLogRow(d, ok) == [event_date |-> d, is_success |-> ok]

\* LastEventSync ordered by event_date ascending
LastEventSyncAscending(log) ==
    LET rows == {i \in 1..Len(log) : log[i].is_success}
    IN IF rows = {} THEN NoneValue
       ELSE Value(log[CHOOSE i \in rows :
                        \A j \in rows : ~DateLess(log[j].event_date,
                                                  log[i].event_date)])

\* LastEventSync that takes the success row written last (order_by('-id'))
LastEventSyncNewestRow(log) ==
    LET rows == {i \in 1..Len(log) : log[i].is_success}
    IN IF rows = {} THEN NoneValue
       ELSE Value(log[CHOOSE i \in rows : \A j \in rows : j <= i])

\* LastEventSync without the filter on is_success
LastEventSyncUnfiltered(log) ==
    LET rows == 1..Len(log)
    IN IF rows = {} THEN NoneValue
       ELSE Value(log[CHOOSE i \in rows :
                        \A j \in rows : ~DateLess(log[i].event_date,
                                                  log[j].event_date)])

\* EventLog.objects.filter(is_success=True).order_by('-event_date').first()
LastEventSync(log) ==
    LET rows == {i \in 1..Len(log) : log[i].is_success}
    IN IF rows = {} THEN NoneValue
       ELSE Value(log[CHOOSE i \in rows :
                        \A j \in rows : ~DateLess(log[i].event_date,
                                                  log[j].event_date)])

\* GetNextDateToSync with the last index taken one too small
GetNextDateToSyncShort(df, log) ==
    LET last_sync == LastEventSync(log)
        event_dates == EventDatesOf(df)
        found == {i \in 1..Len(event_dates) :
                    event_dates[i] = last_sync.value.event_date}
    IN IF last_sync = NoneValue
       THEN (IF event_dates = <<>> THEN Raise("IndexError")
             ELSE Value(event_dates[1]))
       ELSE IF found = {} THEN Raise("ValueError")
       ELSE LET current_date_index == CHOOSE i \in found : \A j \in found : i <= j
            IN IF current_date_index < Len(event_dates) - 1
               THEN Value(event_dates[current_date_index + 1])
               ELSE NoneValue

\* GetNextDateToSync that starts over from the first date when the last
\* synchronized date is not found
GetNextDateToSyncRestart(df, log) ==
    LET last_sync == LastEventSync(log)
        event_dates == EventDatesOf(df)
        found == {i \in 1..Len(event_dates) :
                    event_dates[i] = last_sync.value.event_date}
    IN IF last_sync = NoneValue
       THEN (IF event_dates = <<>> THEN Raise("IndexError")
             ELSE Value(event_dates[1]))
       ELSE IF found = {}
       THEN (IF event_dates = <<>> THEN NoneValue ELSE Value(event_dates[1]))
       ELSE LET current_date_index == CHOOSE i \in found : \A j \in found : i <= j
            IN IF current_date_index < Len(event_dates)
               THEN Value(event_dates[current_date_index + 1])
               ELSE NoneValue

\* GetNextDateToSync that returns the first date without a success row
GetNextDateToSyncFirstMissing(df, log) ==
    LET event_dates == EventDatesOf(df)
        synced == {log[i].event_date : i \in {j \in 1..Len(log) : log[j].is_success}}
        missing == {i \in 1..Len(event_dates) : event_dates[i] \notin synced}
    IN IF event_dates = <<>> THEN Raise("IndexError")
       ELSE IF missing = {} THEN NoneValue
       ELSE Value(event_dates[CHOOSE i \in missing : \A j \in missing : i <= j])

\* _get_next_date_to_sync
GetNextDateToSync(df, log) ==
    LET last_sync == LastEventSync(log)
        event_dates == EventDatesOf(df)
        found == {i \in 1..Len(event_dates) :
                    event_dates[i] = last_sync.value.event_date}
    IN IF last_sync = NoneValue
       THEN (IF event_dates = <<>> THEN Raise("IndexError")
             ELSE Value(event_dates[1]))
       ELSE IF found = {} THEN Raise("ValueError")
       ELSE LET current_date_index == CHOOSE i \in found : \A j \in found : i <= j
            IN IF current_date_index < Len(event_dates)
               THEN Value(event_dates[current_date_index + 1])
               ELSE NoneValue

\* _events_dataframe_to_payload_data
EventsDataframeToPayloadData(events_to_be_sync) ==
    [i \in 1..Len(events_to_be_sync) |->
       [id |-> events_to_be_sync[i].id,
        hotel_id |-> events_to_be_sync[i].hotel_id,
        room_id |-> events_to_be_sync[i].room_reservation_id,
        timestamp |-> FormatTimestamp(events_to_be_sync[i].event_timestamp),
        rpg_status |-> events_to_be_sync[i].status,
        night_of_stay |-> FormatDate(events_to_be_sync[i].night_of_stay)]]

\* EventsOn that also takes the records of the later dates
EventsOnFrom(df, d) ==
    SelectSeq(df, LAMBDA e : e.event_date = d \/ DateLess(d, e.event_date))

\* df_events[df_events['event_date'] == next_date_to_sync]
EventsOn(df, d) == SelectSeq(df, LAMBDA e : e.event_date = d)

(***************************************************************************)
(* ReservationLog (app/models.py), the period calculator and the           *)
(* reservation unit resolver                                               *)
(***************************************************************************)
PERIOD_DAILY == "day"
PERIOD_MONTHLY == "month"
PERIOD_YEARLY == "year"

PeriodChoices == {PERIOD_DAILY, PERIOD_MONTHLY, PERIOD_YEARLY}

\* the period types _synchronize is called with: those of the three tasks and
\* one that _get_period_from does not support
PeriodInputs == PeriodChoices \cup {"week"}

ReservationLogRow(ts, type, start, end, ok) ==
    [last_sync_at |-> ts, period_type |-> type,
     period_start |-> start, period_end |-> end, is_success |-> ok]

\* DayPeriodOf that ends at the first instant of the next day
DayPeriodOfHalfOpen(date) ==
    LET start == Combine(date, MinTime)
        end == Combine(NextDay(DateOf(date)), MinTime)
    IN <<start, end>>

\* _day_period_of
DayPeriodOf(date) ==
    LET start == Combine(date, MinTime)
        end == Combine(date, MaxTime)
    IN <<start, end>>

\* MonthPeriodOf with relativedelta(day=30)
MonthPeriodOfThirty(date) ==
    LET start == Combine([date EXCEPT !.day = 1], MinTime)
        end == Combine([start EXCEPT !.day = IF 30 <= DaysInMonth(start.year, start.month)
                                             THEN 30
                                             ELSE DaysInMonth(start.year, start.month)],
                       MaxTime)
    IN <<start, end>>

\* _month_period_of
MonthPeriodOf(date) ==
    LET start == Combine([date EXCEPT !.day = 1], MinTime)
        end == Combine(LastDayOfMonth(start), MaxTime)
    IN <<start, end>>

\* _year_period_of
YearPeriodOf(date) ==
    LET start == Combine([date EXCEPT !.day = 1, !.month = 1], MinTime)
        end == Combine(LastDayOfMonth([start EXCEPT !.month = 12]), MaxTime)
    IN <<start, end>>

\* GetPeriodFrom that takes any other period type for the daily one
GetPeriodFromDefaultDay(timestamp, type) ==
    IF type = PERIOD_MONTHLY THEN Value(MonthPeriodOf(timestamp))
    ELSE IF type = PERIOD_YEARLY THEN Value(YearPeriodOf(timestamp))
    ELSE Value(DayPeriodOf(timestamp))

\* _get_period_from
GetPeriodFrom(timestamp, type) ==
    IF type = PERIOD_DAILY THEN Value(DayPeriodOf(timestamp))
    ELSE IF type = PERIOD_MONTHLY THEN Value(MonthPeriodOf(timestamp))
    ELSE IF type = PERIOD_YEARLY THEN Value(YearPeriodOf(timestamp))
    ELSE Raise("ValueError")

\* parse('2022-01-29T00:00:00.0Z')
DefaultTimestamp == DateTime(2022, 1, 29, 0, 0, 0, 0)

\* LastReservationSync over the success rows of every period type
LastReservationSyncAnyType(log, period_type) ==
    LET rows == {i \in 1..Len(log) : log[i].is_success}
    IN IF rows = {} THEN NoneValue
       ELSE Value(log[CHOOSE i \in rows :
                        \A j \in rows : ~DateTimeLess(log[i].last_sync_at,
                                                      log[j].last_sync_at)])

\* ReservationLog.objects.filter(period_type=period_type, is_success=True)
\*     .order_by('-last_sync_at').first()
LastReservationSync(log, period_type) ==
    LET rows == {i \in 1..Len(log) :
                   log[i].period_type = period_type /\ log[i].is_success}
    IN IF rows = {} THEN NoneValue
       ELSE Value(log[CHOOSE i \in rows :
                        \A j \in rows : ~DateTimeLess(log[i].last_sync_at,
                                                      log[j].last_sync_at)])

\* GetTimestampToSync that keeps the time of day of the last row
GetTimestampToSyncKeepTime(log, period_type) ==
    LET last_sync == LastReservationSync(log, period_type)
    IN IF last_sync = NoneValue THEN DefaultTimestamp
       ELSE PlusOneDay(last_sync.value.last_sync_at)

\* GetTimestampToSync without the step of one day
GetTimestampToSyncSame(log, period_type) ==
    LET last_sync == LastReservationSync(log, period_type)
    IN IF last_sync = NoneValue THEN DefaultTimestamp
       ELSE Combine(last_sync.value.last_sync_at, MinTime)

\* _get_timestamp_to_sync
GetTimestampToSync(log, period_type) ==
    LET last_sync == LastReservationSync(log, period_type)
    IN IF last_sync = NoneValue THEN DefaultTimestamp
       ELSE LET anchor_timestamp == Combine(last_sync.value.last_sync_at, MinTime)
            IN PlusOneDay(anchor_timestamp)

(***************************************************************************)
(* The data provider service and the reservation aggregator                *)
(***************************************************************************)
\* an event held by the data provider service
ProviderEvent(hotel, updated, status) ==
    [hotel_id |-> hotel, updated |-> updated, rpg_status |-> status]

\* the events the content of the data provider service is drawn from
ProviderPool ==
    {ProviderEvent(1, DateTime(2022, 1, 29, 10, 15, 59, 0), 1),
     ProviderEvent(2, DateTime(2022, 1, 29, 23, 59, 59, 999999), 1),
     ProviderEvent(1, DateTime(2022, 1, 30, 0, 0, 0, 0), 1),
     ProviderEvent(2, DateTime(2022, 1, 29, 10, 15, 59, 0), 2)}

Providers == UNION {[1..n -> ProviderPool] : n \in 0..MaxProviderEvents}

\* RequestParams that asks for the events of status 2
RequestParamsOtherStatus(start_time, end_time) ==
    [updated__gte |-> FormatTimestamp(start_time),
     updated__lte |-> FormatTimestamp(end_time),
     rpg_status |-> 2]

\* the request parameters of _count_events_on
RequestParams(start_time, end_time) ==
    [updated__gte |-> FormatTimestamp(start_time),
     updated__lte |-> FormatTimestamp(end_time),
     rpg_status |-> 1]

\* the timestamp a request parameter denotes
ParseParam(c) == DateTime(c.Y, c.m, c.d, c.H, c.M, c.S, c.f)

\* DatasourceAPI.list: the events of the service that match the filter
DatasourceList(store, params) ==
    SelectSeq(store,
              LAMBDA e : /\ DateTimeLeq(ParseParam(params.updated__gte), e.updated)
                         /\ DateTimeLeq(e.updated, ParseParam(params.updated__lte))
                         /\ e.rpg_status = params.rpg_status)

\* events_map of _count_events_on: the keys in insertion order
HotelKeys(events) == Unique([i \in 1..Len(events) |-> events[i].hotel_id])

\* CountEvents with the length of the whole response as every total
CountEventsAll(events, period_type, start_time, end_time) ==
    LET keys == HotelKeys(events)
    IN [k \in 1..Len(keys) |->
          [hotel_id |-> keys[k],
           total |-> Len(events),
           period_type |-> period_type,
           period_start |-> FormatTimestamp(start_time),
           period_end |-> FormatTimestamp(end_time)]]

\* counters of _count_events_on
CountEvents(events, period_type, start_time, end_time) ==
    LET keys == HotelKeys(events)
    IN [k \in 1..Len(keys) |->
          [hotel_id |-> keys[k],
           total |-> Len(SelectSeq(events, LAMBDA e : e.hotel_id = keys[k])),
           period_type |-> period_type,
           period_start |-> FormatTimestamp(start_time),
           period_end |-> FormatTimestamp(end_time)]]

(***************************************************************************)
(* Invocations                                                             *)
(***************************************************************************)
\* what an invocation knows of the attempt it retries: the unit, the period,
\* the records and the upsert calls of the invocation of the same task that
\* ended just before it started, when that one failed in its upsert loop
NoPrevious ==
    [unit |-> NoneValue, period |-> NoneValue, batch |-> <<>>, sent |-> <<>>]

Idle ==
    [pc |-> "idle", task |-> "none", unit |-> NoneValue, period |-> NoneValue,
     batch |-> <<>>, sent |-> <<>>, previous |-> NoPrevious,
     eventLogBefore |-> <<>>, reservationLogBefore |-> <<>>]

\* no invocation has finished since the last one was started
NoLast ==
    [task |-> "none", result |-> "none", error |-> "none", unit |-> NoneValue,
     period |-> NoneValue, batch |-> <<>>, sent |-> <<>>,
     eventLogBefore |-> <<>>, reservationLogBefore |-> <<>>]

\* the record of a finished invocation: how it ended, the unit it resolved,
\* the records it had to send, the upsert calls it made, and the tables as
\* they were when it started
Outcome(task, result, error, unit, period, batch, sent, evBefore, resBefore) ==
    [task |-> task, result |-> result, error |-> error, unit |-> unit,
     period |-> period, batch |-> batch, sent |-> sent,
     eventLogBefore |-> evBefore, reservationLogBefore |-> resBefore]

\* the attempt an invocation of `task` that starts now retries
Previous(task) ==
    IF last.task = task /\ last.error = "upsert failed"
    THEN [unit |-> last.unit, period |-> last.period,
          batch |-> last.batch, sent |-> last.sent]
    ELSE NoPrevious

AllIdle == \A q \in Procs : procs[q].pc = "idle"

\* synchronize_events, up to the first upsert
SynchronizeEventsStart(p) ==
    /\ procs[p].pc = "idle"
    /\ LET df_events == LoadEvents(source)
           next_date_to_sync == GetNextDateToSync(df_events, eventLog)
       IN IF next_date_to_sync.kind = "raise"
          THEN /\ last' = Outcome("events", "error", next_date_to_sync.error,
                                  NoneValue, NoneValue, <<>>, <<>>,
                                  eventLog, reservationLog)
               /\ UNCHANGED procs
          ELSE IF next_date_to_sync = NoneValue
          THEN /\ last' = Outcome("events", "noop", "none",
                                  NoneValue, NoneValue, <<>>, <<>>,
                                  eventLog, reservationLog)
               /\ UNCHANGED procs
          ELSE LET events_to_be_sync == EventsOn(df_events, next_date_to_sync.value)
                   payload_data == EventsDataframeToPayloadData(events_to_be_sync)
               IN /\ procs' = [procs EXCEPT ![p] =
                                 [pc |-> "upsert", task |-> "events",
                                  unit |-> next_date_to_sync,
                                  period |-> NoneValue,
                                  batch |-> payload_data, sent |-> <<>>,
                                  previous |-> Previous("events"),
                                  eventLogBefore |-> eventLog,
                                  reservationLogBefore |-> reservationLog]]
                  /\ last' = NoLast
    /\ UNCHANGED <<source, provider, eventLog, reservationLog, returned>>

\* the invocation of p ends: its record replaces the last one
Finish(p, result, error, sent) ==
    /\ last' = Outcome(procs[p].task, result, error, procs[p].unit,
                       procs[p].period, procs[p].batch, sent,
                       procs[p].eventLogBefore, procs[p].reservationLogBefore)
    /\ procs' = [procs EXCEPT ![p] = Idle]

\* DatasourceAPI.upsert(payload) of the loop of synchronize_events returns
UpsertEventOk(p) ==
    /\ procs[p].pc = "upsert" /\ procs[p].task = "events"
    /\ Len(procs[p].sent) < Len(procs[p].batch)
    /\ procs' = [procs EXCEPT ![p].sent =
                   Append(@, procs[p].batch[Len(procs[p].sent) + 1])]
    /\ UNCHANGED <<source, provider, eventLog, reservationLog, last, returned>>

\* UpsertEventFail with the watermark row written on the way out
UpsertEventFailLogged(p) ==
    /\ procs[p].pc = "upsert" /\ procs[p].task = "events"
    /\ Len(procs[p].sent) < Len(procs[p].batch)
    /\ eventLog' = Append(eventLog, EventLogRow(procs[p].unit.value, TRUE))
    /\ Finish(p, "error", "upsert failed",
              Append(procs[p].sent, procs[p].batch[Len(procs[p].sent) + 1]))
    /\ UNCHANGED <<source, provider, reservationLog, returned>>

\* DatasourceAPI.upsert(payload) raises (raise_for_status, or no connection)
UpsertEventFail(p) ==
    /\ procs[p].pc = "upsert" /\ procs[p].task = "events"
    /\ Len(procs[p].sent) < Len(procs[p].batch)
    /\ Finish(p, "error", "upsert failed",
              Append(procs[p].sent, procs[p].batch[Len(procs[p].sent) + 1]))
    /\ UNCHANGED <<source, provider, eventLog, reservationLog, returned>>

\* WriteEventLog that keeps a single row, the one of the last date
WriteEventLogLatestOnly(p) ==
    /\ procs[p].pc = "upsert" /\ procs[p].task = "events"
    /\ Len(procs[p].sent) = Len(procs[p].batch)
    /\ eventLog' = <<EventLogRow(procs[p].unit.value, TRUE)>>
    /\ Finish(p, "ok", "none", procs[p].sent)
    /\ UNCHANGED <<source, provider, reservationLog, returned>>

\* WriteEventLog that writes no second success row for a date
WriteEventLogOnce(p) ==
    /\ procs[p].pc = "upsert" /\ procs[p].task = "events"
    /\ Len(procs[p].sent) = Len(procs[p].batch)
    /\ eventLog' = IF procs[p].unit.value \in
                         {eventLog[i].event_date : i \in 1..Len(eventLog)}
                   THEN eventLog
                   ELSE Append(eventLog, EventLogRow(procs[p].unit.value, TRUE))
    /\ Finish(p, "ok", "none", procs[p].sent)
    /\ UNCHANGED <<source, provider, reservationLog, returned>>

\* WriteEventLog that leaves is_success at the default of the model
WriteEventLogDefault(p) ==
    /\ procs[p].pc = "upsert" /\ procs[p].task = "events"
    /\ Len(procs[p].sent) = Len(procs[p].batch)
    /\ eventLog' = Append(eventLog, EventLogRow(procs[p].unit.value, FALSE))
    /\ Finish(p, "ok", "none", procs[p].sent)
    /\ UNCHANGED <<source, provider, reservationLog, returned>>

\* EventLog.objects.create(event_date=next_date_to_sync, is_success=True)
WriteEventLog(p) ==
    /\ procs[p].pc = "upsert" /\ procs[p].task = "events"
    /\ Len(procs[p].sent) = Len(procs[p].batch)
    /\ eventLog' = Append(eventLog, EventLogRow(procs[p].unit.value, TRUE))
    /\ Finish(p, "ok", "none", procs[p].sent)
    /\ UNCHANGED <<source, provider, reservationLog, returned>>

\* _synchronize(period_type), up to the request to the data provider
SynchronizeStart(p, period_type) ==
    /\ procs[p].pc = "idle"
    /\ LET timestamp == GetTimestampToSync(reservationLog, period_type)
           period == GetPeriodFrom(timestamp, period_type)
       IN IF period.kind = "raise"
          THEN /\ last' = Outcome(period_type, "error", period.error,
                                  Value(timestamp), NoneValue, <<>>, <<>>,
                                  eventLog, reservationLog)
               /\ UNCHANGED procs
          ELSE /\ procs' = [procs EXCEPT ![p] =
                              [pc |-> "list", task |-> period_type,
                               unit |-> Value(timestamp), period |-> period,
                               batch |-> <<>>, sent |-> <<>>,
                               previous |-> Previous(period_type),
                               eventLogBefore |-> eventLog,
                               reservationLogBefore |-> reservationLog]]
               /\ last' = NoLast
    /\ UNCHANGED <<source, provider, eventLog, reservationLog, returned>>

\* event_api.list(req_params) returns; the events are grouped and counted
ListEventsOk(p) ==
    /\ procs[p].pc = "list"
    /\ LET start_time == procs[p].period.value[1]
           end_time == procs[p].period.value[2]
           events == DatasourceList(provider, RequestParams(start_time, end_time))
       IN procs' = [procs EXCEPT
                      ![p].pc = "upsert",
                      ![p].batch = CountEvents(events, procs[p].task,
                                               start_time, end_time)]
    /\ UNCHANGED <<source, provider, eventLog, reservationLog, last, returned>>

\* ListEventsFail with a row written for the failed attempt
ListEventsFailRecorded(p) ==
    /\ procs[p].pc = "list"
    /\ LET period == procs[p].period.value
       IN reservationLog' =
            Append(reservationLog,
                   ReservationLogRow(procs[p].unit.value, procs[p].task,
                                     period[1], period[2], FALSE))
    /\ Finish(p, "error", "list failed", <<>>)
    /\ UNCHANGED <<source, provider, eventLog, returned>>

\* event_api.list(req_params) raises
ListEventsFail(p) ==
    /\ procs[p].pc = "list"
    /\ Finish(p, "error", "list failed", <<>>)
    /\ UNCHANGED <<source, provider, eventLog, reservationLog, returned>>

\* DestinationAPI.upsert(counted_event) of the loop of _synchronize returns
UpsertReservationOk(p) ==
    /\ procs[p].pc = "upsert" /\ procs[p].task \in PeriodChoices
    /\ Len(procs[p].sent) < Len(procs[p].batch)
    /\ procs' = [procs EXCEPT ![p].sent =
                   Append(@, procs[p].batch[Len(procs[p].sent) + 1])]
    /\ UNCHANGED <<source, provider, eventLog, reservationLog, last, returned>>

\* UpsertReservationFail with the watermark row written on the way out
UpsertReservationFailLogged(p) ==
    /\ procs[p].pc = "upsert" /\ procs[p].task \in PeriodChoices
    /\ Len(procs[p].sent) < Len(procs[p].batch)
    /\ LET period == procs[p].period.value
       IN reservationLog' =
            Append(reservationLog,
                   ReservationLogRow(procs[p].unit.value, procs[p].task,
                                     period[1], period[2], TRUE))
    /\ Finish(p, "error", "upsert failed",
              Append(procs[p].sent, procs[p].batch[Len(procs[p].sent) + 1]))
    /\ UNCHANGED <<source, provider, eventLog, returned>>

\* DestinationAPI.upsert(counted_event) raises
UpsertReservationFail(p) ==
    /\ procs[p].pc = "upsert" /\ procs[p].task \in PeriodChoices
    /\ Len(procs[p].sent) < Len(procs[p].batch)
    /\ Finish(p, "error", "upsert failed",
              Append(procs[p].sent, procs[p].batch[Len(procs[p].sent) + 1]))
    /\ UNCHANGED <<source, provider, eventLog, reservationLog, returned>>

\* WriteReservationLog as an update_or_create on the period: the row of the
\* same period type and period is overwritten
WriteReservationLogPerPeriod(p) ==
    /\ procs[p].pc = "upsert" /\ procs[p].task \in PeriodChoices
    /\ Len(procs[p].sent) = Len(procs[p].batch)
    /\ LET timestamp == procs[p].unit.value
           period == GetPeriodFrom(timestamp, procs[p].task).value
           row == ReservationLogRow(timestamp, procs[p].task,
                                    period[1], period[2], TRUE)
           same == {i \in 1..Len(reservationLog) :
                      /\ reservationLog[i].period_type = row.period_type
                      /\ reservationLog[i].period_start = row.period_start
                      /\ reservationLog[i].period_end = row.period_end}
       IN reservationLog' =
            IF same = {} THEN Append(reservationLog, row)
            ELSE [i \in 1..Len(reservationLog) |->
                    IF i \in same THEN row ELSE reservationLog[i]]
    /\ Finish(p, "ok", "none", procs[p].sent)
    /\ UNCHANGED <<source, provider, eventLog, returned>>

\* WriteReservationLog that writes no row when there was nothing to send
WriteReservationLogNonEmpty(p) ==
    /\ procs[p].pc = "upsert" /\ procs[p].task \in PeriodChoices
    /\ Len(procs[p].sent) = Len(procs[p].batch)
    /\ LET timestamp == procs[p].unit.value
           period == GetPeriodFrom(timestamp, procs[p].task).value
       IN reservationLog' =
            IF procs[p].batch = <<>> THEN reservationLog
            ELSE Append(reservationLog,
                        ReservationLogRow(timestamp, procs[p].task,
                                          period[1], period[2], TRUE))
    /\ Finish(p, "ok", "none", procs[p].sent)
    /\ UNCHANGED <<source, provider, eventLog, returned>>

\* ReservationLog.objects.create(...) at the end of _synchronize
WriteReservationLog(p) ==
    /\ procs[p].pc = "upsert" /\ procs[p].task \in PeriodChoices
    /\ Len(procs[p].sent) = Len(procs[p].batch)
    /\ LET timestamp == procs[p].unit.value
           period == GetPeriodFrom(timestamp, procs[p].task).value
       IN reservationLog' =
            Append(reservationLog,
                   ReservationLogRow(timestamp, procs[p].task,
                                     period[1], period[2], TRUE))
    /\ Finish(p, "ok", "none", procs[p].sent)
    /\ UNCHANGED <<source, provider, eventLog, returned>>

(***************************************************************************)
(* The system: a fixed snapshot and a fixed content of the data provider,  *)
(* empty tables, and the tasks run one invocation at a time.               *)
(***************************************************************************)
NotCalled == [kind |-> "notcalled"]

\* the snapshot of the tests: three rows, not in the order of their dates
DefaultSnapshot ==
    [i \in 1..3 |-> CsvRow(i, Date(2024, 6, <<11, 13, 12>>[i]))]

\* a content of the data provider with events of two hotels
DefaultProvider ==
    <<ProviderEvent(1, DateTime(2022, 1, 29, 10, 15, 59, 0), 1),
      ProviderEvent(2, DateTime(2022, 1, 29, 23, 59, 59, 999999), 1)>>

\* the inputs of a run: any snapshot with the default content of the data
\* provider, or the default snapshot with any content of the data provider
Inputs ==
    {<<s, DefaultProvider>> : s \in Snapshots}
        \cup {<<DefaultSnapshot, c>> : c \in Providers}

Init ==
    /\ \E in \in Inputs : source = in[1] /\ provider = in[2]
    /\ eventLog = <<>>
    /\ reservationLog = <<>>
    /\ procs = [p \in Procs |-> Idle]
    /\ last = NoLast
    /\ returned = NotCalled

Next ==
    \E p \in SingleWorker :
        \/ AllIdle /\ SynchronizeEventsStart(p)
        \/ UpsertEventOk(p)
        \/ UpsertEventFail(p)
        \/ WriteEventLog(p)
        \/ \E period_type \in PeriodInputs :
               /\ AllIdle
               /\ Len(reservationLog) < MaxResRows
               /\ SynchronizeStart(p, period_type)
        \/ ListEventsOk(p)
        \/ ListEventsFail(p)
        \/ UpsertReservationOk(p)
        \/ UpsertReservationFail(p)
        \/ WriteReservationLog(p)

Spec == Init /\ [][Next]_vars

(***************************************************************************)
(* A direct call of the event unit resolver on any content of EventLog     *)
(***************************************************************************)
\* the dates of the rows of EventLog: those of the snapshot and an earlier one
LogDates == EventDates \cup {Date(2024, 6, 10)}

EventLogs ==
    UNION {[1..n -> {EventLogRow(d, ok) : d \in LogDates, ok \in BOOLEAN}]
           : n \in 0..MaxLogRows}

InitResolver ==
    /\ source \in Snapshots
    /\ provider = <<>>
    /\ eventLog \in EventLogs
    /\ reservationLog = <<>>
    /\ procs = [p \in Procs |-> Idle]
    /\ last = NoLast
    /\ returned = NotCalled

\* CallGetNextDateToSync that marks the date it returns as synchronized
CallGetNextDateToSyncMarking ==
    /\ returned = NotCalled
    /\ returned' = GetNextDateToSync(LoadEvents(source), eventLog)
    /\ eventLog' = IF returned'.kind = "value"
                   THEN Append(eventLog, EventLogRow(returned'.value, TRUE))
                   ELSE eventLog
    /\ UNCHANGED <<source, provider, reservationLog, procs, last>>

\* returned = _get_next_date_to_sync(_load_events())
CallGetNextDateToSync ==
    /\ returned = NotCalled
    /\ returned' = GetNextDateToSync(LoadEvents(source), eventLog)
    /\ UNCHANGED <<source, provider, eventLog, reservationLog, procs, last>>

NextResolver == CallGetNextDateToSync

SpecResolver == InitResolver /\ [][NextResolver]_vars

(***************************************************************************)
(* One invocation of synchronize_events on any content of EventLog         *)
(***************************************************************************)
NextEventsFrom ==
    \E p \in SingleWorker :
        \/ AllIdle /\ last = NoLast /\ SynchronizeEventsStart(p)
        \/ UpsertEventOk(p)
        \/ UpsertEventFail(p)
        \/ WriteEventLog(p)

SpecEventsFrom == InitResolver /\ [][NextEventsFrom]_vars

(***************************************************************************)
(* The reservation tasks, one invocation at a time, from a ReservationLog   *)
(* that has rows                                                            *)
(***************************************************************************)
\* the last_sync_at of the rows at the start: a time within a day, the day
\* before a leap day, the last instant of a February of 28 days, the last
\* day of a year
SeedTimestamps ==
    {DateTime(2024, 6, 14, 10, 15, 59, 0),
     DateTime(2024, 2, 28, 0, 0, 0, 0),
     DateTime(2023, 2, 28, 23, 59, 59, 999999),
     DateTime(2023, 12, 31, 12, 0, 0, 0)}

SeedRows ==
    {ReservationLogRow(ts, type, GetPeriodFrom(ts, type).value[1],
                       GetPeriodFrom(ts, type).value[2], ok) :
        ts \in SeedTimestamps, type \in PeriodChoices, ok \in BOOLEAN}

ReservationLogs == UNION {[1..n -> SeedRows] : n \in 0..MaxSeedRows}

InitReservationsFrom ==
    /\ source = DefaultSnapshot
    /\ provider = DefaultProvider
    /\ eventLog = <<>>
    /\ reservationLog \in ReservationLogs
    /\ procs = [p \in Procs |-> Idle]
    /\ last = NoLast
    /\ returned = NotCalled

NextReservationsFrom ==
    \E p \in SingleWorker :
        \/ \E period_type \in PeriodInputs :
               /\ AllIdle /\ Len(reservationLog) < MaxResRows
               /\ SynchronizeStart(p, period_type)
        \/ ListEventsOk(p)
        \/ ListEventsFail(p)
        \/ UpsertReservationOk(p)
        \/ UpsertReservationFail(p)
        \/ WriteReservationLog(p)

SpecReservationsFrom == InitReservationsFrom /\ [][NextReservationsFrom]_vars

(***************************************************************************)
(* Worker processes that run invocations at the same time                  *)
(***************************************************************************)
InitWorkers ==
    /\ source = DefaultSnapshot
    /\ provider = DefaultProvider
    /\ eventLog = <<>>
    /\ reservationLog = <<>>
    /\ procs = [p \in Procs |-> Idle]
    /\ last = NoLast
    /\ returned = NotCalled

\* an invocation of the task is between its start and its end
InFlight(task) == \E q \in Procs : procs[q].task = task

\* the rows of ReservationLog and the rows the invocations in flight can add
ReservationRowsDue ==
    Len(reservationLog) + Cardinality({q \in Procs : procs[q].task \in PeriodChoices})

\* the tasks of different pipelines run at the same time, the invocations of
\* one task one after another
NextPipelines ==
    \E p \in Procs :
        \/ ~InFlight("events") /\ SynchronizeEventsStart(p)
        \/ UpsertEventOk(p)
        \/ UpsertEventFail(p)
        \/ WriteEventLog(p)
        \/ \E period_type \in PeriodInputs :
               /\ ~InFlight(period_type) /\ ReservationRowsDue < MaxResRows
               /\ SynchronizeStart(p, period_type)
        \/ ListEventsOk(p)
        \/ ListEventsFail(p)
        \/ UpsertReservationOk(p)
        \/ UpsertReservationFail(p)
        \/ WriteReservationLog(p)

SpecPipelines == InitWorkers /\ [][NextPipelines]_vars

\* any two invocations run at the same time, those of one task included
NextWorkers ==
    \E p \in Procs :
        \/ Len(eventLog) + Cardinality({q \in Procs : procs[q].task = "events"})
               < MaxLogRows
           /\ SynchronizeEventsStart(p)
        \/ UpsertEventOk(p)
        \/ UpsertEventFail(p)
        \/ WriteEventLog(p)
        \/ \E period_type \in PeriodInputs :
               /\ ReservationRowsDue < MaxResRows
               /\ SynchronizeStart(p, period_type)
        \/ ListEventsOk(p)
        \/ ListEventsFail(p)
        \/ UpsertReservationOk(p)
        \/ UpsertReservationFail(p)
        \/ WriteReservationLog(p)

SpecWorkers == InitWorkers /\ [][NextWorkers]_vars

(***************************************************************************)
(* Overlapping invocations of one task: an invocation can write its row    *)
(* after a later one has written its own                                   *)
(***************************************************************************)
InitLateWrites ==
    /\ source = DefaultSnapshot
    /\ provider = DefaultProvider
    /\ eventLog = <<>>
    /\ reservationLog = <<>>
    /\ procs = [p \in Procs |-> Idle]
    /\ last = NoLast
    /\ returned = NotCalled

\* the run so far is one of invocations of this task alone
OnlyTask(task) ==
    /\ \A q \in Procs : procs[q].task \in {"none", task}
    /\ task # "events" => eventLog = <<>>
    /\ \A i \in 1..Len(reservationLog) : reservationLog[i].period_type = task

NextLateWrites ==
    \E p \in Procs :
        \/ /\ OnlyTask("events")
           /\ Len(eventLog) + Cardinality({q \in Procs : procs[q].task = "events"})
                  < MaxLateRows
           /\ SynchronizeEventsStart(p)
        \/ UpsertEventOk(p)
        \/ UpsertEventFail(p)
        \/ WriteEventLog(p)
        \/ \E period_type \in PeriodInputs :
               /\ OnlyTask(period_type)
               /\ ReservationRowsDue < MaxLateRows
               /\ SynchronizeStart(p, period_type)
        \/ ListEventsOk(p)
        \/ ListEventsFail(p)
        \/ UpsertReservationOk(p)
        \/ UpsertReservationFail(p)
        \/ WriteReservationLog(p)

SpecLateWrites == InitLateWrites /\ [][NextLateWrites]_vars

(***************************************************************************)
(* Calls of _get_period_from, one after another, on timestamps of a pool   *)
(***************************************************************************)
\* a time within a day, the last and the first instants of months and of
\* years, leap days, and the Februaries of 2000 and of 2100
PeriodTimestamps ==
    {DateTime(2024, 6, 14, 10, 15, 59, 0),
     DateTime(2024, 6, 14, 23, 59, 59, 999999),
     DateTime(2024, 6, 15, 0, 0, 0, 0),
     DateTime(2024, 6, 30, 23, 59, 59, 999999),
     DateTime(2024, 7, 1, 0, 0, 0, 0),
     DateTime(2024, 2, 29, 12, 0, 0, 0),
     DateTime(2023, 2, 28, 23, 59, 59, 999999),
     DateTime(2023, 3, 1, 0, 0, 0, 0),
     DateTime(2023, 12, 31, 23, 59, 59, 999999),
     DateTime(2024, 1, 1, 0, 0, 0, 0),
     DateTime(2000, 2, 10, 8, 30, 0, 0),
     DateTime(2100, 2, 15, 8, 30, 0, 0)}

\* the calls to make: the period type and the timestamps, first to last
PeriodCalls(type, pending) ==
    [kind |-> "calls", type |-> type, pending |-> pending, periods |-> <<>>]

InitPeriod ==
    /\ source = <<>>
    /\ provider = <<>>
    /\ eventLog = <<>>
    /\ reservationLog = <<>>
    /\ procs = [p \in Procs |-> Idle]
    /\ last = NoLast
    /\ \E type \in PeriodInputs, n \in 1..MaxCalls :
           \E pending \in [1..n -> PeriodTimestamps] :
               returned = PeriodCalls(type, pending)

\* _get_period_from(timestamp, type) on the next timestamp
CallGetPeriodFrom ==
    /\ returned.kind = "calls"
    /\ returned.pending # <<>>
    /\ LET timestamp == Head(returned.pending)
       IN returned' =
            [returned EXCEPT
               !.pending = Tail(@),
               !.periods = Append(@, [timestamp |-> timestamp,
                                      period |-> GetPeriodFrom(timestamp,
                                                               returned.type)])]
    /\ UNCHANGED <<source, provider, eventLog, reservationLog, procs, last>>

NextPeriod == CallGetPeriodFrom

SpecPeriod == InitPeriod /\ [][NextPeriod]_vars

(***************************************************************************)
(* synchronize_events on its schedule: one invocation at a time, started   *)
(* again and again, with an upstream service that does not refuse a record *)
(* forever                                                                  *)
(***************************************************************************)
InitEvents ==
    /\ source \in Snapshots
    /\ provider = <<>>
    /\ eventLog = <<>>
    /\ reservationLog = <<>>
    /\ procs = [p \in Procs |-> Idle]
    /\ last = NoLast
    /\ returned = NotCalled

NextEvents ==
    \E p \in SingleWorker :
        \/ AllIdle /\ SynchronizeEventsStart(p)
        \/ UpsertEventOk(p)
        \/ UpsertEventFail(p)
        \/ WriteEventLog(p)

\* a start of synchronize_events would change the state: no invocation runs,
\* and the resolver returns a date, or the outcome of the start is not the
\* one already on record
StartPending ==
    /\ AllIdle
    /\ LET next_date_to_sync == GetNextDateToSync(LoadEvents(source), eventLog)
       IN \/ next_date_to_sync.kind = "value"
          \/ last # Outcome("events",
                            IF next_date_to_sync.kind = "raise" THEN "error" ELSE "noop",
                            IF next_date_to_sync.kind = "raise"
                            THEN next_date_to_sync.error ELSE "none",
                            NoneValue, NoneValue, <<>>, <<>>,
                            eventLog, reservationLog)

\* the schedule starts the task whenever no invocation runs (the weak
\* fairness of the start, with its enabling condition written as
\* StartPending); the upsert of the k-th record of a date, tried again by
\* every retry, succeeds in the end (SF_); the row is written once the loop
\* is through (WF_)
FairEvents ==
    /\ \/ []<>(~StartPending)
       \/ []<><<\E p \in SingleWorker : AllIdle /\ SynchronizeEventsStart(p)>>_vars
    /\ \A k \in 0..(MaxEvents - 1) :
           SF_vars(\E p \in SingleWorker :
                       Len(procs[p].sent) = k /\ UpsertEventOk(p))
    /\ WF_vars(\E p \in SingleWorker : WriteEventLog(p))

SpecEventsFair == InitEvents /\ [][NextEvents]_vars /\ FairEvents

(***************************************************************************)
(* A snapshot file that gets rows between the invocations of               *)
(* synchronize_events, which reads the file anew each time                 *)
(***************************************************************************)
\* a row is added to snapshot_data.csv while no invocation runs
AddEvent(d) ==
    /\ AllIdle
    /\ Len(source) < MaxEvents
    /\ source' = Append(source, CsvRow(Len(source) + 1, d))
    /\ UNCHANGED <<provider, eventLog, reservationLog, procs, last, returned>>

NextGrowth ==
    \/ \E d \in LogDates : AddEvent(d)
    \/ \E p \in SingleWorker :
           \/ AllIdle /\ SynchronizeEventsStart(p)
           \/ UpsertEventOk(p)
           \/ UpsertEventFail(p)
           \/ WriteEventLog(p)

SpecGrowth == InitEvents /\ [][NextGrowth]_vars

(***************************************************************************)
(* Properties                                                              *)
(***************************************************************************)
IsPrefix(a, b) == Len(a) <= Len(b) /\ \A i \in 1..Len(a) : a[i] = b[i]

\* the calendar date written in a cell of the event_timestamp column
CellDate(c) == Date(c.Y, c.m, c.d)

\* the distinct event dates of the snapshot
SourceDates == {CellDate(source[i].event_timestamp) : i \in 1..Len(source)}

\* the dates that have a success row in an EventLog
SuccessDates(log) == {log[i].event_date : i \in {j \in 1..Len(log) : log[j].is_success}}

Latest(dates) == CHOOSE d \in dates : \A e \in dates : ~DateLess(d, e)

Earliest(dates) == CHOOSE d \in dates : \A e \in dates : ~DateLess(e, d)

\* the success rows of a ReservationLog of one period type
SuccessRows(log, type) ==
    {i \in 1..Len(log) : log[i].is_success /\ log[i].period_type = type}

\* C1: an invocation of synchronize_events or of _synchronize that ends in an
\* error (the resolver raises, the period type is not supported, the list
\* call fails, an upsert fails) leaves EventLog and ReservationLog with
\* exactly the rows they had when it started.
C1_ErrorLeavesLogs ==
    last.result = "error" =>
        /\ eventLog = last.eventLogBefore
        /\ reservationLog = last.reservationLogBefore

\* an invocation of _synchronize has failed in the list call after another
\* one had written its row
C1_Witness ==
    /\ last.result = "error" /\ last.error = "list failed"
    /\ reservationLog # <<>>

\* C2: after an upsert of synchronize_events has failed on the k-th record
\* of a date, the resolver still returns that date, and the invocation that
\* follows works on the same date and sends the upserts of all the records
\* of that date, from the first one on.
C2_EventRetry ==
    /\ (last.task = "events" /\ last.error = "upsert failed") =>
           GetNextDateToSync(LoadEvents(source), eventLog) = last.unit
    /\ \A p \in Procs :
           (procs[p].task = "events" /\ procs[p].previous # NoPrevious) =>
               /\ procs[p].unit = procs[p].previous.unit
               /\ procs[p].batch = procs[p].previous.batch
               /\ {procs[p].batch[i].id : i \in 1..Len(procs[p].batch)}
                    = {source[i].id : i \in
                         {j \in 1..Len(source) :
                            CellDate(source[j].event_timestamp) = procs[p].unit.value}}
               /\ \A i, j \in 1..Len(procs[p].batch) :
                      procs[p].batch[i].id = procs[p].batch[j].id => i = j
               /\ IsPrefix(procs[p].sent, procs[p].batch)

\* a retry has sent all the records again, after an attempt that had failed
\* on the second or a later record
C2_Witness ==
    \E p \in Procs :
        /\ procs[p].task = "events"
        /\ Len(procs[p].previous.sent) >= 2
        /\ procs[p].sent = procs[p].batch

\* C3: after a DestinationAPI.upsert of _synchronize(period_type) has failed
\* no ReservationLog row is written, the resolver returns the same anchor,
\* and the invocation of the same period type that follows works on the same
\* anchor and period and sends all the aggregates of the period again.
C3_ReservationRetry ==
    /\ (last.task \in PeriodChoices /\ last.error = "upsert failed") =>
           /\ reservationLog = last.reservationLogBefore
           /\ Value(GetTimestampToSync(reservationLog, last.task)) = last.unit
    /\ \A p \in Procs :
           (procs[p].task \in PeriodChoices /\ procs[p].previous # NoPrevious) =>
               /\ procs[p].unit = procs[p].previous.unit
               /\ procs[p].period = procs[p].previous.period
               /\ procs[p].pc = "upsert" =>
                      /\ procs[p].batch = procs[p].previous.batch
                      /\ IsPrefix(procs[p].sent, procs[p].batch)

\* a retry has sent all the aggregates again, after an attempt that had
\* failed on the second aggregate
C3_Witness ==
    \E p \in Procs :
        /\ procs[p].task \in PeriodChoices
        /\ procs[p].pc = "upsert"
        /\ Len(procs[p].previous.sent) >= 2
        /\ procs[p].sent = procs[p].batch

\* C4: the dates of the rows of EventLog, in the order in which they were
\* written from an empty EventLog, are strictly increasing, and when the
\* resolver returns None they are the distinct dates of the snapshot, each
\* one once.
C4_ResolverEnumerates ==
    /\ \A i, j \in 1..Len(eventLog) :
           i < j => DateLess(eventLog[i].event_date, eventLog[j].event_date)
    /\ GetNextDateToSync(LoadEvents(source), eventLog) = NoneValue =>
           /\ {eventLog[i].event_date : i \in 1..Len(eventLog)} = SourceDates
           /\ Len(eventLog) = Cardinality(SourceDates)

\* the resolver returns None after two or more dates were synchronized
C4_Witness ==
    /\ GetNextDateToSync(LoadEvents(source), eventLog) = NoneValue
    /\ Len(eventLog) >= 2

\* C5: the dates with a success row in EventLog are the first dates of the
\* ascending list of the distinct dates of the snapshot.
C5_SuccessPrefix ==
    \A d \in SuccessDates(eventLog) :
        /\ d \in SourceDates
        /\ \A e \in SourceDates : DateLess(e, d) => e \in SuccessDates(eventLog)

\* a proper, non-empty prefix of the dates of the snapshot is synchronized
C5_Witness ==
    /\ SuccessDates(eventLog) # {}
    /\ SuccessDates(eventLog) # SourceDates
    /\ \E i \in 1..Len(source) : i > 1 /\
           DateLess(CellDate(source[i].event_timestamp),
                    CellDate(source[1].event_timestamp))

\* C6 as stated: no two success rows of EventLog have the same event_date,
\* and no two success rows of ReservationLog of the same period type have the
\* same period.
C6_ExactlyOncePerPeriod ==
    /\ \A i, j \in 1..Len(eventLog) :
           (eventLog[i].is_success /\ eventLog[j].is_success
              /\ eventLog[i].event_date = eventLog[j].event_date) => i = j
    /\ \A type \in PeriodChoices : \A i, j \in SuccessRows(reservationLog, type) :
           (reservationLog[i].period_start = reservationLog[j].period_start
              /\ reservationLog[i].period_end = reservationLog[j].period_end) => i = j

\* C6, amended: no two success rows of EventLog have the same event_date; no
\* two success rows of ReservationLog of the same period type have the same
\* anchor last_sync_at, and no two of period type day have the same period;
\* success rows of period type month (year) whose anchors are in the same
\* month (year) have the same period.
C6_ExactlyOncePerAnchor ==
    /\ \A i, j \in 1..Len(eventLog) :
           (eventLog[i].is_success /\ eventLog[j].is_success
              /\ eventLog[i].event_date = eventLog[j].event_date) => i = j
    /\ \A type \in PeriodChoices : \A i, j \in SuccessRows(reservationLog, type) :
           reservationLog[i].last_sync_at = reservationLog[j].last_sync_at => i = j
    /\ \A i, j \in SuccessRows(reservationLog, PERIOD_DAILY) :
           (reservationLog[i].period_start = reservationLog[j].period_start
              /\ reservationLog[i].period_end = reservationLog[j].period_end) => i = j
    /\ \A i, j \in SuccessRows(reservationLog, PERIOD_MONTHLY) :
           (reservationLog[i].last_sync_at.year = reservationLog[j].last_sync_at.year
              /\ reservationLog[i].last_sync_at.month = reservationLog[j].last_sync_at.month)
           => (reservationLog[i].period_start = reservationLog[j].period_start
                 /\ reservationLog[i].period_end = reservationLog[j].period_end)
    /\ \A i, j \in SuccessRows(reservationLog, PERIOD_YEARLY) :
           reservationLog[i].last_sync_at.year = reservationLog[j].last_sync_at.year
           => (reservationLog[i].period_start = reservationLog[j].period_start
                 /\ reservationLog[i].period_end = reservationLog[j].period_end)

\* two success rows of period type month with two anchors and one period,
\* and two success rows of EventLog
C6_Witness ==
    /\ \E i, j \in SuccessRows(reservationLog, PERIOD_MONTHLY) :
           /\ reservationLog[i].last_sync_at # reservationLog[j].last_sync_at
           /\ reservationLog[i].period_start = reservationLog[j].period_start
           /\ reservationLog[i].period_end = reservationLog[j].period_end
    /\ Len(eventLog) >= 2

\* C7: an invocation of synchronize_events that starts when the latest date
\* with a success row is the last date of the snapshot returns normally,
\* makes no upsert call and leaves EventLog as it was.
C7_NoWorkNoEffect ==
    (/\ last.task = "events"
     /\ SuccessDates(last.eventLogBefore) # {}
     /\ Latest(SuccessDates(last.eventLogBefore)) = Latest(SourceDates)) =>
        /\ last.result = "noop"
        /\ last.sent = <<>>
        /\ eventLog = last.eventLogBefore

\* synchronize_events has returned without work after every date of a
\* snapshot of two or more dates was synchronized
C7_Witness ==
    /\ last.task = "events" /\ last.result = "noop"
    /\ Len(eventLog) >= 2

\* C8: an invocation of synchronize_events or of _synchronize that completes
\* without error after it resolved a unit has appended one row to the table
\* of its pipeline, with is_success = true and the resolved date or anchor,
\* and no other row to either table.
C8_OneRowPerSuccess ==
    last.result = "ok" =>
        IF last.task = "events"
        THEN /\ eventLog = Append(last.eventLogBefore,
                                  [event_date |-> last.unit.value, is_success |-> TRUE])
             /\ reservationLog = last.reservationLogBefore
        ELSE /\ Len(reservationLog) = Len(last.reservationLogBefore) + 1
             /\ IsPrefix(last.reservationLogBefore, reservationLog)
             /\ reservationLog[Len(reservationLog)].is_success
             /\ reservationLog[Len(reservationLog)].last_sync_at = last.unit.value
             /\ reservationLog[Len(reservationLog)].period_type = last.task
             /\ eventLog = last.eventLogBefore

\* an invocation of synchronize_events has completed after rows were written
\* to both tables
C8_Witness ==
    /\ last.result = "ok" /\ last.task = "events"
    /\ last.eventLogBefore # <<>>
    /\ reservationLog # <<>>

\* C9 as stated: an invocation of synchronize_events that starts when no
\* date of the snapshot is later than the latest date with a success row (or
\* when there is no success row and the snapshot has no row at all) returns
\* normally, without an upsert call and without a new EventLog row.
C9_NothingPendingNoOp ==
    (/\ last.task = "events"
     /\ IF SuccessDates(last.eventLogBefore) = {}
        THEN SourceDates = {}
        ELSE \A d \in SourceDates :
                 ~DateLess(Latest(SuccessDates(last.eventLogBefore)), d)) =>
        /\ last.result = "noop"
        /\ last.sent = <<>>
        /\ eventLog = last.eventLogBefore

\* C10: for a snapshot with at least one row and any content of EventLog,
\* _get_next_date_to_sync returns the earliest date of the snapshot when there
\* is no success row; otherwise, with d the greatest date of the success
\* rows, None when d is the last date of the snapshot and the date of the
\* snapshot that follows d when d is a date of the snapshot but not the last.
C10_ResolverResult ==
    (returned # NotCalled /\ SourceDates # {}) =>
        IF SuccessDates(eventLog) = {}
        THEN returned = Value(Earliest(SourceDates))
        ELSE LET d == Latest(SuccessDates(eventLog))
             IN /\ d = Latest(SourceDates) => returned = NoneValue
                /\ (d \in SourceDates /\ d # Latest(SourceDates)) =>
                       returned = Value(Earliest({e \in SourceDates : DateLess(d, e)}))

\* the resolver has returned a date for an EventLog with a success row and a
\* later row that is not a success
C10_Witness ==
    /\ returned.kind = "value"
    /\ \E i, j \in 1..Len(eventLog) :
           /\ eventLog[i].is_success /\ ~eventLog[j].is_success
           /\ DateLess(eventLog[i].event_date, eventLog[j].event_date)
    /\ SuccessDates(eventLog) # {}
    /\ Latest(SuccessDates(eventLog)) \in SourceDates

\* the greatest date with a success row in the log is not a date of the
\* snapshot
LastSyncMissing(log) ==
    /\ SuccessDates(log) # {}
    /\ Latest(SuccessDates(log)) \notin SourceDates

\* C11: when the greatest date with a success row in EventLog is not among
\* the dates of the snapshot, _get_next_date_to_sync raises instead of
\* returning a date or None, and an invocation of synchronize_events that
\* starts then ends with that error before any upsert call and leaves
\* EventLog as it was.
C11_MissingWatermarkFails ==
    /\ LastSyncMissing(eventLog) =>
           GetNextDateToSync(LoadEvents(source), eventLog) = Raise("ValueError")
    /\ (last.task = "events" /\ LastSyncMissing(last.eventLogBefore)) =>
           /\ last.result = "error" /\ last.error = "ValueError"
           /\ last.sent = <<>>
           /\ eventLog = last.eventLogBefore
    /\ \A p \in Procs :
           procs[p].task = "events" => ~LastSyncMissing(procs[p].eventLogBefore)

\* synchronize_events has ended with the error of the resolver on a snapshot
\* with rows, while a later date of the snapshot has a row that is no success
C11_Witness ==
    /\ last.task = "events" /\ last.error = "ValueError"
    /\ Len(source) >= 2
    /\ \E i \in 1..Len(eventLog) :
           ~eventLog[i].is_success /\ eventLog[i].event_date \in SourceDates

\* C12: a call of _get_next_date_to_sync leaves the snapshot and EventLog as
\* they were, and a second call right after it returns what the first one
\* returned.
C12_ResolverIdempotent ==
    [][returned' # returned =>
           /\ eventLog' = eventLog
           /\ source' = source
           /\ GetNextDateToSync(LoadEvents(source'), eventLog') = returned']_vars

\* the resolver has returned a date for an EventLog with rows
C12_Witness ==
    /\ returned.kind = "value"
    /\ Len(eventLog) >= 2
    /\ SuccessDates(eventLog) # {}

\* the number of the day of a date, counted from 2000-01-01 as day 1, by the
\* table of the days that precede each month
DayNumber(d) ==
    LET y == d.year - 2000
        before == <<0, 31, 59, 90, 120, 151, 181, 212, 243, 273, 304, 334>>
        leap == (d.year % 4 = 0) /\ (d.year % 100 # 0 \/ d.year % 400 = 0)
    IN 365 * y + ((y + 3) \div 4) + before[d.month]
           + (IF leap /\ d.month > 2 THEN 1 ELSE 0) + d.day

IsMidnight(dt) ==
    dt.hour = 0 /\ dt.minute = 0 /\ dt.second = 0 /\ dt.microsecond = 0

\* the greatest day number of the last_sync_at of the success rows of a type
LatestSyncDay(log, type) ==
    CHOOSE n \in {DayNumber(log[i].last_sync_at) : i \in SuccessRows(log, type)} :
        \A i \in SuccessRows(log, type) : DayNumber(log[i].last_sync_at) <= n

\* C13: for each of day, month and year, with no success row of the type in
\* ReservationLog the anchor is 2022-01-29 00:00:00, and otherwise it is
\* midnight of the day after the calendar date of the greatest last_sync_at
\* of the success rows of the type; after a successful invocation the anchor
\* of its type is exactly one calendar day after the anchor it used.
C13_AnchorStepsOneDay ==
    /\ \A type \in PeriodChoices :
           LET anchor == GetTimestampToSync(reservationLog, type)
           IN IF SuccessRows(reservationLog, type) = {}
              THEN anchor = [year |-> 2022, month |-> 1, day |-> 29, hour |-> 0,
                             minute |-> 0, second |-> 0, microsecond |-> 0]
              ELSE /\ IsMidnight(anchor)
                   /\ anchor.month \in 1..12
                   /\ anchor.day \in 1..31
                   /\ DayNumber(anchor) = LatestSyncDay(reservationLog, type) + 1
    /\ (last.task \in PeriodChoices /\ last.result = "ok") =>
           LET used == last.unit.value
               anchor == GetTimestampToSync(reservationLog, last.task)
           IN /\ used = GetTimestampToSync(last.reservationLogBefore, last.task)
              /\ IsMidnight(anchor)
              /\ DayNumber(anchor) = DayNumber(used) + 1

\* a monthly invocation has succeeded from a table whose last monthly success
\* row has a last_sync_at that is not midnight
C13_Witness ==
    /\ last.task = PERIOD_MONTHLY /\ last.result = "ok"
    /\ \E i \in SuccessRows(last.reservationLogBefore, PERIOD_MONTHLY) :
           ~IsMidnight(last.reservationLogBefore[i].last_sync_at)
    /\ DayNumber(GetTimestampToSync(reservationLog, PERIOD_MONTHLY))
           = DayNumber(last.unit.value) + 1

\* the rows of a ReservationLog of one period type, in the order of the table
OfType(log, type) == SelectSeq(log, LAMBDA r : r.period_type = type)

\* the rows n successful invocations of _synchronize for one period type
\* write when they run one after another from an empty table
RECURSIVE SequentialReservationRows(_, _)
SequentialReservationRows(type, n) ==
    IF n = 0 THEN <<>>
    ELSE LET log == SequentialReservationRows(type, n - 1)
             timestamp == GetTimestampToSync(log, type)
             period == GetPeriodFrom(timestamp, type).value
         IN Append(log, ReservationLogRow(timestamp, type, period[1], period[2], TRUE))

\* the rows n successful invocations of synchronize_events write when they
\* run one after another from an empty table
RECURSIVE SequentialEventRows(_, _)
SequentialEventRows(src, n) ==
    IF n = 0 THEN <<>>
    ELSE LET log == SequentialEventRows(src, n - 1)
             next_date == GetNextDateToSync(LoadEvents(src), log)
         IN IF next_date.kind = "value"
            THEN Append(log, EventLogRow(next_date.value, TRUE))
            ELSE log

\* C14: with the tasks of different pipelines running at the same time, the
\* anchor of a period type changes only in the step in which an invocation
\* of that period type ends with success, the next date of the event
\* pipeline changes only in the step in which synchronize_events ends with
\* success, no step changes both tables or the snapshot, the anchor an
\* invocation of a period type uses is the one resolved from the rows of its
\* own type alone, and the rows of each pipeline are the rows its
\* invocations write when run one after another.
C14_PipelinesIndependent ==
    [][/\ reservationLog' # reservationLog =>
              /\ \A type \in PeriodChoices :
                     GetTimestampToSync(reservationLog', type)
                         # GetTimestampToSync(reservationLog, type) =>
                         /\ last'.task = type /\ last'.result = "ok"
                         /\ \E p \in Procs :
                                procs[p].task = type /\ procs'[p] = Idle
              /\ \A type \in PeriodChoices :
                     OfType(reservationLog', type) =
                         SequentialReservationRows(
                             type, Len(OfType(reservationLog', type)))
              /\ eventLog' = eventLog
       /\ eventLog' # eventLog =>
              /\ GetNextDateToSync(LoadEvents(source'), eventLog')
                     # GetNextDateToSync(LoadEvents(source), eventLog) =>
                     /\ last'.task = "events" /\ last'.result = "ok"
                     /\ \E p \in Procs :
                            procs[p].task = "events" /\ procs'[p] = Idle
              /\ eventLog' = SequentialEventRows(source', Len(eventLog'))
              /\ reservationLog' = reservationLog
       /\ source' = source
       /\ \A p \in Procs :
              (procs'[p] # procs[p] /\ procs'[p].task \in PeriodChoices) =>
                  procs'[p].unit.value =
                      GetTimestampToSync(OfType(procs'[p].reservationLogBefore,
                                                procs'[p].task),
                                         procs'[p].task)]_vars

\* synchronize_events and a reservation task are in flight at the same time,
\* after a success of the event pipeline and one of another period type
C14_Witness ==
    /\ \E p, q \in Procs :
           /\ procs[p].task = "events" /\ procs[p].pc = "upsert"
           /\ procs[q].task \in PeriodChoices /\ procs[q].pc = "upsert"
           /\ \E i \in 1..Len(reservationLog) :
                  reservationLog[i].period_type # procs[q].task
           /\ procs[q].reservationLogBefore = <<>>
    /\ eventLog # <<>>

\* C15: with two invocations of one task running at the same time, the
\* invocation that ends with success appends its success row whatever rows
\* the table holds by then, so that two invocations that both resolved the
\* same date, or the same anchor of a period type, before either wrote both
\* send the upserts of the unit and leave two success rows for it.
C15_DoubleProcessing ==
    [][\A p \in Procs :
           (procs[p].pc = "upsert" /\ procs'[p] = Idle /\ last'.result = "ok") =>
               /\ last'.sent = procs[p].batch
               /\ procs[p].task = "events" =>
                      eventLog' = Append(eventLog,
                                         EventLogRow(procs[p].unit.value, TRUE))
               /\ procs[p].task \in PeriodChoices =>
                      /\ Len(reservationLog') = Len(reservationLog) + 1
                      /\ reservationLog'[Len(reservationLog')].last_sync_at
                             = procs[p].unit.value
                      /\ reservationLog'[Len(reservationLog')].period_type
                             = procs[p].task
                      /\ reservationLog'[Len(reservationLog')].is_success]_vars

\* two invocations of synchronize_events that both started on the empty table
\* have sent their upserts and have written two success rows for one date,
\* and ReservationLog holds two success rows of one type for one anchor
C15_Witness ==
    /\ Len(reservationLog) = 2
    /\ reservationLog[1] = reservationLog[2] /\ reservationLog[1].is_success
    /\ Len(eventLog) = 2
    /\ eventLog[1] = eventLog[2] /\ eventLog[1].is_success
    /\ last.task = "events" /\ last.result = "ok"
    /\ last.eventLogBefore = <<>>
    /\ last.sent = last.batch /\ last.batch # <<>>

\* the calls of _get_period_from made so far that returned a period
PeriodsReturned ==
    IF returned.kind = "calls"
    THEN {i \in 1..Len(returned.periods) : returned.periods[i].period.kind = "value"}
    ELSE {}

\* C16: for a timestamp t and a period type of day, month and year, the
\* period (start, end) that _get_period_from returns has start <= t <= end,
\* and the periods of two timestamps of one period type are the same period
\* or the end of the earlier one is strictly before the start of the later
\* one.
C16_PeriodContainsAndDisjoint ==
    /\ \A i \in PeriodsReturned :
           LET t == returned.periods[i].timestamp
               period == returned.periods[i].period.value
           IN /\ returned.type \in PeriodChoices
              /\ DateTimeLeq(period[1], t)
              /\ DateTimeLeq(t, period[2])
    /\ \A i, j \in PeriodsReturned :
           LET a == returned.periods[i].period.value
               b == returned.periods[j].period.value
           IN \/ a = b
              \/ DateTimeLess(a[2], b[1])
              \/ DateTimeLess(b[2], a[1])

\* the day periods of the last instant of a day and of the first instant of
\* the next day have been returned
C16_Witness ==
    /\ returned.kind = "calls" /\ returned.type = PERIOD_DAILY
    /\ Len(returned.periods) = 2
    /\ returned.periods[1].timestamp =
           [year |-> 2024, month |-> 6, day |-> 14, hour |-> 23, minute |-> 59,
            second |-> 59, microsecond |-> 999999]
    /\ returned.periods[2].timestamp =
           [year |-> 2024, month |-> 6, day |-> 15, hour |-> 0, minute |-> 0,
            second |-> 0, microsecond |-> 0]
    /\ returned.periods[1].period # returned.periods[2].period

\* the last day of a month of the calendar
LastDayOf(year, month) ==
    LET leap == (year % 4 = 0) /\ (year % 100 # 0 \/ year % 400 = 0)
    IN <<31, IF leap THEN 29 ELSE 28, 31, 30, 31, 30, 31, 31, 30, 31, 30, 31>>[month]

\* C17: the day period of t is the date of t from 00:00:00.000000 to
\* 23:59:59.999999; the month period runs from day 1 of the month of t at
\* 00:00:00.000000 to the last calendar day of that month (28, 29, 30 or 31)
\* at 23:59:59.999999; the year period runs from January 1 00:00:00.000000 to
\* December 31 23:59:59.999999 of the year of t.
C17_PeriodBoundaries ==
    \A i \in PeriodsReturned :
        LET t == returned.periods[i].timestamp
            start == returned.periods[i].period.value[1]
            end == returned.periods[i].period.value[2]
            first(y, m, d) == [year |-> y, month |-> m, day |-> d, hour |-> 0,
                               minute |-> 0, second |-> 0, microsecond |-> 0]
            final(y, m, d) == [year |-> y, month |-> m, day |-> d, hour |-> 23,
                               minute |-> 59, second |-> 59, microsecond |-> 999999]
        IN /\ returned.type = "day" =>
                  /\ start = first(t.year, t.month, t.day)
                  /\ end = final(t.year, t.month, t.day)
           /\ returned.type = "month" =>
                  /\ start = first(t.year, t.month, 1)
                  /\ end = final(t.year, t.month, LastDayOf(t.year, t.month))
           /\ returned.type = "year" =>
                  /\ start = first(t.year, 1, 1)
                  /\ end = final(t.year, 12, 31)

\* the month periods of a leap day and of a day of February 2100 have been
\* returned, the one ending on the 29th and the other on the 28th
C17_Witness ==
    /\ returned.kind = "calls" /\ returned.type = PERIOD_MONTHLY
    /\ Len(returned.periods) = 2
    /\ returned.periods[1].timestamp.year = 2024
    /\ returned.periods[1].period.kind = "value"
    /\ returned.periods[1].period.value[2].day = 29
    /\ returned.periods[2].timestamp.year = 2100
    /\ returned.periods[2].period.kind = "value"
    /\ returned.periods[2].period.value[2].day = 28

\* C18: _get_period_from raises for a period type other than day, month and
\* year; an invocation of _synchronize with such a type ends with that error
\* with no list call and no upsert call made and no row written, and no
\* invocation with such a type is ever past its start.
C18_UnsupportedTypeFails ==
    /\ \A type \in PeriodInputs \ {"day", "month", "year"} :
           GetPeriodFrom(GetTimestampToSync(reservationLog, type), type)
               = Raise("ValueError")
    /\ last.task \notin {"none", "events", "day", "month", "year"} =>
           /\ last.result = "error" /\ last.error = "ValueError"
           /\ last.batch = <<>> /\ last.sent = <<>>
           /\ reservationLog = last.reservationLogBefore
           /\ eventLog = last.eventLogBefore
    /\ \A p \in Procs : procs[p].task \in {"none", "events", "day", "month", "year"}

\* _synchronize with the type week has failed on a ReservationLog with rows
C18_Witness ==
    /\ last.task = "week" /\ last.error = "ValueError"
    /\ reservationLog # <<>>

\* the invocations of _synchronize whose list call has returned
Listed == {p \in Procs : procs[p].task \in PeriodChoices /\ procs[p].pc = "upsert"}

\* the response of the list call of an invocation whose list call has returned
ListResponse(p) ==
    DatasourceList(provider,
                   RequestParams(procs[p].period.value[1], procs[p].period.value[2]))

RECURSIVE SumOfTotals(_)
SumOfTotals(batch) ==
    IF batch = <<>> THEN 0 ELSE Head(batch).total + SumOfTotals(Tail(batch))

\* the position of the first event of a hotel in a response
FirstSeen(events, hotel) ==
    CHOOSE i \in 1..Len(events) :
        /\ events[i].hotel_id = hotel
        /\ \A j \in 1..(i - 1) : events[j].hotel_id # hotel

\* C19: the aggregates _count_events_on makes of the response of the list
\* call are one per distinct hotel_id of the response, in the order in which
\* the hotel ids first appear in it, each with the number of the events of
\* its hotel as total, so that the totals add up to the length of the
\* response, and all with the period type and the formatted start and end of
\* the period of the invocation.
C19_OneAggregatePerHotel ==
    \A p \in Listed :
        LET events == ListResponse(p)
            batch == procs[p].batch
        IN /\ {batch[k].hotel_id : k \in 1..Len(batch)}
                  = {events[i].hotel_id : i \in 1..Len(events)}
           /\ \A k, l \in 1..Len(batch) :
                  k < l => FirstSeen(events, batch[k].hotel_id)
                               < FirstSeen(events, batch[l].hotel_id)
           /\ \A k \in 1..Len(batch) :
                  /\ batch[k].total =
                         Cardinality({i \in 1..Len(events) :
                                        events[i].hotel_id = batch[k].hotel_id})
                  /\ batch[k].period_type = procs[p].task
                  /\ batch[k].period_start = FormatTimestamp(procs[p].period.value[1])
                  /\ batch[k].period_end = FormatTimestamp(procs[p].period.value[2])
           /\ SumOfTotals(batch) = Len(events)

\* the aggregates of a response with an event of hotel 2 before one of
\* hotel 1 have been made
C19_Witness ==
    \E p \in Listed :
        /\ Len(procs[p].batch) = 2
        /\ procs[p].batch[1].hotel_id = 2
        /\ procs[p].batch[2].hotel_id = 1

\* the events of a hotel that the data provider holds with status 1 and with
\* `updated` within a period
Bookings(hotel, period) ==
    {i \in 1..Len(provider) :
        /\ provider[i].hotel_id = hotel
        /\ provider[i].rpg_status = 1
        /\ DateTimeLeq(period[1], provider[i].updated)
        /\ DateTimeLeq(provider[i].updated, period[2])}

\* C20: whatever events the data provider holds in the period, the total of
\* each aggregate is the number of the events of its hotel in the period
\* with rpg_status 1, and a hotel with no such event has no aggregate.
C20_OnlyStatusOne ==
    \A p \in Listed :
        \A hotel \in {provider[i].hotel_id : i \in 1..Len(provider)} :
            LET of_hotel == {k \in 1..Len(procs[p].batch) :
                               procs[p].batch[k].hotel_id = hotel}
                bookings == Bookings(hotel, procs[p].period.value)
            IN IF bookings = {} THEN of_hotel = {}
               ELSE /\ Cardinality(of_hotel) = 1
                    /\ \A k \in of_hotel :
                           procs[p].batch[k].total = Cardinality(bookings)

\* the aggregates of a period in which hotel 1 has an event of status 1 and
\* hotel 2 only an event of another status have been made
C20_Witness ==
    \E p \in Listed :
        /\ \E i \in 1..Len(provider) :
               /\ provider[i].hotel_id = 2 /\ provider[i].rpg_status # 1
               /\ DateTimeLeq(procs[p].period.value[1], provider[i].updated)
               /\ DateTimeLeq(provider[i].updated, procs[p].period.value[2])
        /\ Bookings(2, procs[p].period.value) = {}
        /\ Len(procs[p].batch) = 1
        /\ procs[p].batch[1].hotel_id = 1

\* C21: when the list call returns no event for the period, _synchronize has
\* nothing to send; the invocation makes no upsert call, ends with success
\* and appends one success row for its anchor, after which the anchor of its
\* period type is the day after the one it used.
C21_EmptyPeriodStillLogged ==
    /\ \A p \in Listed :
           ListResponse(p) = <<>> => procs[p].batch = <<>> /\ procs[p].sent = <<>>
    /\ (last.task \in PeriodChoices /\ last.batch = <<>>
            /\ last.error # "list failed") =>
           /\ last.result = "ok"
           /\ last.sent = <<>>
           /\ Len(reservationLog) = Len(last.reservationLogBefore) + 1
           /\ IsPrefix(last.reservationLogBefore, reservationLog)
           /\ reservationLog[Len(reservationLog)].last_sync_at = last.unit.value
           /\ reservationLog[Len(reservationLog)].period_type = last.task
           /\ reservationLog[Len(reservationLog)].is_success
           /\ IsMidnight(GetTimestampToSync(reservationLog, last.task))
           /\ DayNumber(GetTimestampToSync(reservationLog, last.task))
                  = DayNumber(last.unit.value) + 1

\* a daily invocation has succeeded for a day on which the data provider,
\* which holds events of the day before, has none
C21_Witness ==
    /\ last.task = PERIOD_DAILY /\ last.result = "ok"
    /\ last.batch = <<>>
    /\ provider # <<>>
    /\ Len(reservationLog) = 2
    /\ reservationLog[1].period_type = PERIOD_DAILY

\* the last finished invocation is a successful monthly or yearly one whose
\* anchor falls in the month (the year) of the anchor of the latest success
\* row of its period type that the table held when it started
SamePeriodAgain ==
    /\ last.task \in {"month", "year"} /\ last.result = "ok"
    /\ SuccessRows(last.reservationLogBefore, last.task) # {}
    /\ \A i \in SuccessRows(last.reservationLogBefore, last.task) :
           /\ last.reservationLogBefore[i].last_sync_at.year = last.unit.value.year
           /\ last.task = "month" =>
                  last.reservationLogBefore[i].last_sync_at.month
                      = last.unit.value.month

\* C22: a successful monthly or yearly invocation whose anchor falls in the
\* same month (year) as the anchor of the success before it has the same
\* period_start and period_end as that one; it has made the list call for
\* that period, has sent every aggregate of the period again, and has
\* appended a new row with its later anchor as last_sync_at and the same
\* period_start and period_end.
C22_SamePeriodSentAgain ==
    SamePeriodAgain =>
        LET before == last.reservationLogBefore
            start == last.period.value[1]
            end == last.period.value[2]
            row == reservationLog[Len(reservationLog)]
        IN /\ \A i \in SuccessRows(before, last.task) :
                  /\ before[i].period_start = start
                  /\ before[i].period_end = end
                  /\ DateTimeLess(before[i].last_sync_at, last.unit.value)
           /\ last.batch = CountEvents(DatasourceList(provider,
                                                      RequestParams(start, end)),
                                       last.task, start, end)
           /\ last.sent = last.batch
           /\ Len(reservationLog) = Len(before) + 1
           /\ IsPrefix(before, reservationLog)
           /\ row = [last_sync_at |-> last.unit.value, period_type |-> last.task,
                     period_start |-> start, period_end |-> end,
                     is_success |-> TRUE]

\* the second monthly invocation has sent the aggregates of January 2022
\* again
C22_Witness ==
    /\ SamePeriodAgain
    /\ last.task = PERIOD_MONTHLY
    /\ last.batch # <<>> /\ last.sent = last.batch
    /\ Len(reservationLog) = 2
    /\ reservationLog[1].period_start = reservationLog[2].period_start
    /\ reservationLog[1].last_sync_at # reservationLog[2].last_sync_at

\* the rows of the snapshot whose event_timestamp has a calendar date
RowsOn(d) == {i \in 1..Len(source) : CellDate(source[i].event_timestamp) = d}

\* the dates of the snapshot later than a date
LaterDates(d) == {e \in SourceDates : DateLess(d, e)}

\* C23: a successful invocation of synchronize_events that resolved the date
\* d has sent one upsert for each row of the snapshot whose event date is d
\* and none for a row of another date, and has appended the success row of
\* d; the resolver then returns the next distinct date of the snapshot, and
\* None when d is the last one.
C23_EventsOfOneDate ==
    (last.task = "events" /\ last.result = "ok") =>
        LET d == last.unit.value
        IN /\ Len(last.sent) = Cardinality(RowsOn(d))
           /\ {last.sent[k].id : k \in 1..Len(last.sent)}
                  = {source[i].id : i \in RowsOn(d)}
           /\ eventLog = Append(last.eventLogBefore,
                                [event_date |-> d, is_success |-> TRUE])
           /\ GetNextDateToSync(LoadEvents(source), eventLog) =
                  IF LaterDates(d) = {} THEN NoneValue
                  ELSE Value(Earliest(LaterDates(d)))

\* the second invocation has sent the two records of the second date of a
\* snapshot of three rows
C23_Witness ==
    /\ last.task = "events" /\ last.result = "ok"
    /\ Len(source) = 3 /\ Len(last.sent) = 2
    /\ Len(eventLog) = 2
    /\ eventLog[1].event_date # eventLog[2].event_date

\* C24: no step of an invocation changes or removes a row of EventLog or of
\* ReservationLog; a step adds at most one row at the end of one table, and
\* a row added has is_success = true, so that a failed attempt leaves no row.
C24_AppendOnly ==
    [][/\ IsPrefix(eventLog, eventLog')
       /\ IsPrefix(reservationLog, reservationLog')
       /\ Len(eventLog') + Len(reservationLog')
              <= Len(eventLog) + Len(reservationLog) + 1
       /\ \A i \in (Len(eventLog) + 1)..Len(eventLog') : eventLog'[i].is_success
       /\ \A i \in (Len(reservationLog) + 1)..Len(reservationLog') :
              reservationLog'[i].is_success
       /\ (last' # last /\ last'.result # "ok") =>
              eventLog' = eventLog /\ reservationLog' = reservationLog]_vars

\* both tables hold rows and an invocation has just failed in its upsert loop
C24_Witness ==
    /\ Len(eventLog) >= 1 /\ Len(reservationLog) >= 1
    /\ last.result = "error" /\ last.error = "upsert failed"
    /\ \A i \in 1..Len(eventLog) : eventLog[i].is_success
    /\ \A i \in 1..Len(reservationLog) : reservationLog[i].is_success

\* every date of the snapshot has a success row, no invocation runs, and the
\* last invocation returned without work
AllSyncedAndIdle ==
    /\ SourceDates \subseteq SuccessDates(eventLog)
    /\ AllIdle
    /\ last.task = "events" /\ last.result = "noop"

\* C25: with the snapshot fixed, synchronize_events started again and again
\* one invocation at a time, and no record refused forever by the upstream
\* service, from some point on every date of the snapshot has a success row
\* and every invocation is a no-op.
C25_EventuallyAllSynced == <>[]AllSyncedAndIdle

\* the same for the snapshots that have at least one row
C25_EventuallyAllSyncedWithRows == (source # <<>>) => <>[]AllSyncedAndIdle

\* on the snapshot without rows the invocation has ended with the IndexError
\* of the resolver
C25_Witness ==
    /\ source = <<>>
    /\ last.task = "events" /\ last.result = "error" /\ last.error = "IndexError"

\* the last_sync_at of the success rows of a ReservationLog of one type
SyncedAt(log, type) == {log[i].last_sync_at : i \in SuccessRows(log, type)}

\* C26: with overlapping invocations of one task, no step makes the greatest
\* event_date of the success rows of EventLog, or the greatest last_sync_at
\* of the success rows of ReservationLog of a period type, smaller or
\* absent; so no step, the late write of a slower invocation included, makes
\* _get_next_date_to_sync return an earlier date than before or a date after
\* it returned None, or makes _get_timestamp_to_sync return an earlier
\* anchor.
C26_ProgressNeverRegresses ==
    [][/\ SuccessDates(eventLog) # {} =>
              \E d \in SuccessDates(eventLog') :
                  \A e \in SuccessDates(eventLog) : ~DateLess(d, e)
       /\ \A type \in PeriodChoices :
              SyncedAt(reservationLog, type) # {} =>
                  \E t \in SyncedAt(reservationLog', type) :
                      \A u \in SyncedAt(reservationLog, type) : ~DateTimeLess(t, u)
       /\ LET before == GetNextDateToSync(LoadEvents(source), eventLog)
              after == GetNextDateToSync(LoadEvents(source'), eventLog')
          IN /\ before.kind = "value" =>
                    \/ after = NoneValue
                    \/ after.kind = "value" /\ ~DateLess(after.value, before.value)
             /\ before = NoneValue => after = NoneValue
       /\ \A type \in PeriodChoices :
              ~DateTimeLess(GetTimestampToSync(reservationLog', type),
                            GetTimestampToSync(reservationLog, type))]_vars

\* an invocation of synchronize_events has written the row of the first date
\* after another one had written the row of the second date, and the
\* resolver returns the third date
C26_Witness ==
    /\ Len(eventLog) = 3
    /\ DateLess(eventLog[3].event_date, eventLog[2].event_date)
    /\ GetNextDateToSync(LoadEvents(source), eventLog).kind = "value"
    /\ \A i \in 1..3 :
           DateLess(eventLog[i].event_date,
                    GetNextDateToSync(LoadEvents(source), eventLog).value)

\* C27: when rows are added to the snapshot between invocations, a new date
\* later than every date of the snapshot ends the no-work state: the
\* resolver, which returned None, returns that date; the date the resolver
\* returns and the date an invocation works on are later than every date
\* with a success row, so that a date added before the greatest date with a
\* success row is never resolved and no record of it is ever sent.
C27_GrowingSource ==
    [][/\ LET after == GetNextDateToSync(LoadEvents(source'), eventLog')
          IN /\ after.kind = "value" =>
                    \A e \in SuccessDates(eventLog') : DateLess(e, after.value)
             /\ \A d \in LogDates :
                    (/\ AddEvent(d)
                     /\ GetNextDateToSync(LoadEvents(source), eventLog) = NoneValue
                     /\ \A i \in 1..Len(source) :
                            DateLess(CellDate(source[i].event_timestamp), d))
                        => after = Value(d)
       /\ \A p \in Procs :
              procs'[p].task = "events" =>
                  /\ \A e \in SuccessDates(eventLog') :
                         ~DateLess(procs'[p].unit.value, e)
                  /\ \A k \in 1..Len(procs'[p].sent) :
                         \E i \in 1..Len(source') :
                             /\ source'[i].id = procs'[p].sent[k].id
                             /\ CellDate(source'[i].event_timestamp)
                                    = procs'[p].unit.value
       /\ eventLog' # eventLog =>
              \A e \in SuccessDates(eventLog) :
                  DateLess(e, eventLog'[Len(eventLog')].event_date)]_vars

\* an invocation has returned without work on a snapshot of three rows whose
\* last row has a date before the two dates with a success row
C27_Witness ==
    /\ last.task = "events" /\ last.result = "noop"
    /\ Len(source) = 3 /\ Len(eventLog) = 2
    /\ last.eventLogBefore = eventLog
    /\ CellDate(source[3].event_timestamp) \notin SuccessDates(eventLog)
    /\ \A e \in SuccessDates(eventLog) :
           DateLess(CellDate(source[3].event_timestamp), e)

====
